---- MODULE Spec2Model ----
(***************************************************************************)
(* Model of setup.py of pecos: VersionHelper (version from the git tag,    *)
(* written to and read back from pecos/_version.py), BlasHelper (BLAS      *)
(* lookup through numpy's system_info) and the module-level build script   *)
(* that assembles the setuptools.Extension and calls setuptools.setup.     *)
(*                                                                         *)
(* A Python str is a sequence of characters.  Literal text of the source   *)
(* that no operation of the script looks into (a fixed flag, a comment     *)
(* line of the template, the word __version__) is one element of such a    *)
(* sequence; text that comes from outside (git's stdout, the environment   *)
(* variable) is one element per character.                                 *)
(***************************************************************************)
EXTENDS Naturals, Sequences, FiniteSets, TLC

\* ------------------------------------------------------------------ bounds
MaxTagLen == 6
MaxCalls == 2
MaxLibs == 2
MaxDirs == 2
MaxEnvLen == 3

SeqsUpTo(S, n) == UNION {[1..k -> S] : k \in 0..n}

\* Characters git's stdout is drawn from ("\n" ends the line git prints).
TagChars == {"v", "1", ".", "x", "\""}
\* Characters the value of PECOS_MANUAL_COMPILE_ARGS is drawn from.
EnvChars == {"a", "b", ","}
LibNames == {"openblas", "lapack"}
DirNames == {<<"/usr/lib">>, <<"/opt/lib">>}

\* ------------------------------------------------------- Python's str, re
Digits == {"0", "1", "2", "3", "4", "5", "6", "7", "8", "9"}
Whitespace == {" ", "\n", "\t", "\r"}

RECURSIVE LStrip(_)
LStrip(s) == IF s # <<>> /\ Head(s) \in Whitespace THEN LStrip(Tail(s)) ELSE s

RECURSIVE RStrip(_)
RStrip(s) ==
    IF s # <<>> /\ s[Len(s)] \in Whitespace
    THEN RStrip(SubSeq(s, 1, Len(s) - 1))
    ELSE s

\* str.strip()
Strip(s) == RStrip(LStrip(s))

\* s[n:]
DropFirst(s, n) == SubSeq(s, n + 1, Len(s))

\* str.startswith
StartsWith(s, prefix) ==
    /\ Len(s) >= Len(prefix)
    /\ SubSeq(s, 1, Len(prefix)) = prefix

\* c in s
Contains(s, c) == \E i \in 1..Len(s) : s[i] = c

\* Index of the first element of s equal to c, 0 when there is none.
RECURSIVE FindFrom(_, _, _)
FindFrom(s, c, i) ==
    IF i > Len(s) THEN 0
    ELSE IF s[i] = c THEN i
    ELSE FindFrom(s, c, i + 1)

\* str.split(sep) for a one-character sep: never empty, keeps empty parts.
RECURSIVE SplitOn(_, _)
SplitOn(s, sep) ==
    LET i == FindFrom(s, sep, 1)
    IN  IF i = 0 THEN <<s>>
        ELSE <<SubSeq(s, 1, i - 1)>> \o SplitOn(SubSeq(s, i + 1, Len(s)), sep)

\* str.splitlines(): lines end at "\n"; no empty last line.
RECURSIVE SplitLines(_)
SplitLines(s) ==
    IF s = <<>> THEN <<>>
    ELSE LET i == FindFrom(s, "\n", 1)
         IN  IF i = 0 THEN <<s>>
             ELSE <<SubSeq(s, 1, i - 1)>> \o SplitLines(SubSeq(s, i + 1, Len(s)))

\* A join that keeps the first part only, as parts[0] in place of sep.join(parts).
JoinFirst(parts, sep) == IF parts = <<>> THEN <<>> ELSE parts[1]

\* sep.join(parts)
RECURSIVE JoinWith(_, _)
JoinWith(parts, sep) ==
    IF parts = <<>> THEN <<>>
    ELSE IF Len(parts) = 1 THEN parts[1]
    ELSE parts[1] \o <<sep>> \o JoinWith(Tail(parts), sep)

\* Regular expression pieces: each gives the positions a match starting at
\* position i can end before.
ReLit(s, i, c) == IF i <= Len(s) /\ s[i] = c THEN {i + 1} ELSE {}
\* \d+
ReDigits(s, i) == {j \in (i + 1)..(Len(s) + 1) : \A k \in i..(j - 1) : s[k] \in Digits}
\* .   (any character but a newline)
ReAny(s, i) == IF i <= Len(s) /\ s[i] # "\n" THEN {i + 1} ELSE {}

\* re.match(r'v\d+.\d+.\d+', s): anchored at the start only, dots unescaped.
ReMatchTag(s) ==
    LET p1 == ReLit(s, 1, "v")
        p2 == UNION {ReDigits(s, i) : i \in p1}
        p3 == UNION {ReAny(s, i) : i \in p2}
        p4 == UNION {ReDigits(s, i) : i \in p3}
        p5 == UNION {ReAny(s, i) : i \in p4}
        p6 == UNION {ReDigits(s, i) : i \in p5}
    IN  p6 # {}

\* ------------------------------------------------------------------ state
VARIABLES
    git,                  \* .git in the working directory, and what `git describe` gives
    cwdIsHere,            \* the working directory is the directory of setup.py
    files,                \* pecos/_version.py under the working directory and under
                          \* the script's directory
    blasInfo,             \* what numpy's get_info('lapack_opt') returns
    envArgs,              \* PECOS_MANUAL_COMPILE_ARGS in os.environ
    pc,                   \* the statement of the script that runs next
    error,                \* the exception that ended the script
    blas_lib,
    blas_dir,
    manual_compile_args,
    ext_module,           \* <<>> until assigned, then <<the Extension>>
    pkg,                  \* <<>> until setuptools.setup is called, then <<its arguments>>
    hist                  \* one record per call of VersionHelper.get_version

vars == <<git, cwdIsHere, files, blasInfo, envArgs, pc, error, blas_lib, blas_dir,
          manual_compile_args, ext_module, pkg, hist>>

\* --------------------------------------------------------- VersionHelper
NoFile == [exists |-> FALSE, data |-> <<>>]
File(data) == [exists |-> TRUE, data |-> data]

\* str % ver on __VERSION_PY
VERSION_PY(ver) ==
    << "\n",
       "# This file is automatically generated from Git version tag by running setup.",
       "\n",
       "# Only distribution/installed packages contain this file.",
       "\n",
       "\n",
       "__version__", " ", "=", " ", "\"" >> \o ver \o << "\"", "\n" >>

DummyVer == <<"0", ".", "0", ".", "0">>

\* open(cls.__VERSION_FP, "w"): relative to the working directory.
WritePath == "cwd"
\* os.path.join(here, cls.__VERSION_FP): relative to the directory of setup.py.
ReadPath == IF cwdIsHere THEN "cwd" ELSE "here"

\* The file opened with "a" in place of "w": data lands after what it held.
WriteFileAppend(fs, path, data) == [fs EXCEPT ![path] = File(fs[path].data \o data)]

\* open(path, "w") and write: the file holds data and nothing else.
WriteFile(fs, path, data) == [fs EXCEPT ![path] = File(data)]

\* __update_version_py on the file system fs: the exception raised, the local
\* ver, whether it warned, and the file system it leaves.
update_version_py(fs) ==
    LET tagged == git.isdir /\ git.returncode = 0
        git_tag == git.stdout
    IN  IF tagged /\ ~ReMatchTag(git_tag)
        THEN [err |-> "AssertionError", ver |-> DummyVer, warned |-> FALSE, files |-> fs]
        ELSE LET ver == IF tagged THEN Strip(DropFirst(git_tag, Len(<<"v">>)))
                        ELSE DummyVer
             IN  [err |-> "none", ver |-> ver, warned |-> (ver = DummyVer),
                  files |-> WriteFile(fs, WritePath, VERSION_PY(ver))]

\* The lines of a text that start with __version__, by index.
VersionLines(lines) == {i \in 1..Len(lines) : StartsWith(lines[i], <<"__version__">>)}

\* The loop of get_version over the text read back.
ParseVersion(text) ==
    LET lines == SplitLines(text)
        hits == VersionLines(lines)
    IN  IF hits = {} THEN [err |-> "RuntimeError", ret |-> <<>>]
        ELSE LET line == lines[CHOOSE i \in hits : \A j \in hits : i <= j]
                 delim == IF Contains(line, "\"") THEN "\"" ELSE "'"
                 parts == SplitOn(line, delim)
             IN  IF Len(parts) < 2 THEN [err |-> "IndexError", ret |-> <<>>]
                 ELSE [err |-> "none", ret |-> parts[2]]

\* get_version on the file system fs.
get_version(fs) ==
    LET u == update_version_py(fs)
        rec(err, ret) == [err |-> err, ret |-> ret, ver |-> u.ver, warned |-> u.warned,
                          before |-> fs, after |-> u.files]
    IN  IF u.err # "none" THEN rec(u.err, <<>>)
        ELSE IF ~u.files[ReadPath].exists THEN rec("FileNotFoundError", <<>>)
        ELSE LET p == ParseVersion(u.files[ReadPath].data)
             IN  rec(p.err, p.ret)

\* ------------------------------------------------------------ BlasHelper
\* The dict get_info returns: found is FALSE for the empty dict {}, TRUE for
\* a dict with the keys libraries and library_dirs.
NoInfo == [libraries |-> <<>>, library_dirs |-> <<>>, found |-> FALSE]

\* bool(blas_info): a dict is false when it is empty.
Truthy(info) == info.found

\* get_blas_lib_dir without its last assert.
get_blas_lib_dir_NoDirCheck(info) ==
    LET raise(msg) == [err |-> "AssertionError", msg |-> msg, lib |-> <<>>, dir |-> <<>>]
    IN  IF ~Truthy(info) \/ info.libraries = <<>>
        THEN raise("No BLAS/LAPACK library is found, need to install BLAS.")
        ELSE [err |-> "none", msg |-> "", lib |-> info.libraries, dir |-> info.library_dirs]

\* get_blas_lib_dir returning the first directory alone.
get_blas_lib_dir_FirstDir(info) ==
    LET raise(msg) == [err |-> "AssertionError", msg |-> msg, lib |-> <<>>, dir |-> <<>>]
    IN  IF ~Truthy(info) \/ info.libraries = <<>>
        THEN raise("No BLAS/LAPACK library is found, need to install BLAS.")
        ELSE IF info.library_dirs = <<>>
        THEN raise("No BLAS/LAPACK library directory is found, need to install BLAS.")
        ELSE [err |-> "none", msg |-> "", lib |-> info.libraries,
              dir |-> <<info.library_dirs[1]>>]

get_blas_lib_dir(info) ==
    LET raise(msg) == [err |-> "AssertionError", msg |-> msg, lib |-> <<>>, dir |-> <<>>]
    IN  IF ~Truthy(info)
        THEN raise("No BLAS/LAPACK library is found, need to install BLAS.")
        ELSE IF info.libraries = <<>>
        THEN raise("No BLAS/LAPACK library is found, need to install BLAS.")
        ELSE IF info.library_dirs = <<>>
        THEN raise("No BLAS/LAPACK library directory is found, need to install BLAS.")
        ELSE [err |-> "none", msg |-> "", lib |-> info.libraries, dir |-> info.library_dirs]

\* ------------------------------------------------------------ the script
\* The call of get_blas_lib_dir with its exception swallowed.
LocateBlasContinue ==
    /\ pc = "locate"
    /\ LET r == get_blas_lib_dir(blasInfo)
       IN  /\ blas_lib' = r.lib
           /\ blas_dir' = r.dir
           /\ pc' = "args"
           /\ error' = error
    /\ UNCHANGED <<git, cwdIsHere, files, blasInfo, envArgs, manual_compile_args,
                   ext_module, pkg, hist>>

\* blas_lib, blas_dir = BlasHelper.get_blas_lib_dir()
LocateBlas ==
    /\ pc = "locate"
    /\ LET r == get_blas_lib_dir(blasInfo)
       IN  IF r.err = "none"
           THEN /\ blas_lib' = r.lib
                /\ blas_dir' = r.dir
                /\ pc' = "args"
                /\ error' = error
           ELSE /\ pc' = "failed"
                /\ error' = [type |-> r.err, msg |-> r.msg]
                /\ UNCHANGED <<blas_lib, blas_dir>>
    /\ UNCHANGED <<git, cwdIsHere, files, blasInfo, envArgs, manual_compile_args,
                   ext_module, pkg, hist>>

\* The value of the variable taken as one argument, never split.
ManualCompileArgsNoSplit ==
    /\ pc = "args"
    /\ manual_compile_args' =
          IF envArgs.set /\ envArgs.value # <<>> THEN <<envArgs.value>> ELSE <<>>
    /\ pc' = "ext"
    /\ UNCHANGED <<git, cwdIsHere, files, blasInfo, envArgs, error, blas_lib, blas_dir,
                   ext_module, pkg, hist>>

\* os.environ.get('PECOS_MANUAL_COMPILE_ARGS', default=None) and the if after it
ManualCompileArgs ==
    /\ pc = "args"
    /\ manual_compile_args' =
          IF envArgs.set /\ envArgs.value # <<>>
          THEN SplitOn(envArgs.value, ",")
          ELSE <<>>
    /\ pc' = "ext"
    /\ UNCHANGED <<git, cwdIsHere, files, blasInfo, envArgs, error, blas_lib, blas_dir,
                   ext_module, pkg, hist>>

\* setuptools.Extension(...)
Extension(libs, dirs, args) ==
    [name |-> "pecos.core.libpecos_float32",
     sources |-> <<"pecos/core/libpecos.cpp">>,
     include_dirs |-> <<"pecos/core", "/usr/include/", "/usr/local/include">>,
     libraries |-> <<"gomp", "gcc">> \o libs,
     library_dirs |-> dirs,
     extra_compile_args |-> << <<"-fopenmp">>, <<"-O3">>, <<"-std=c++14">> >> \o args,
     extra_link_args |-> << <<"-Wl,--no-as-needed">>,
                            <<"-Wl,-rpath,">> \o JoinWith(dirs, ":") >>]

BuildExtension ==
    /\ pc = "ext"
    /\ ext_module' = <<Extension(blas_lib, blas_dir, manual_compile_args)>>
    /\ pc' = "version"
    /\ UNCHANGED <<git, cwdIsHere, files, blasInfo, envArgs, error, blas_lib, blas_dir,
                   manual_compile_args, pkg, hist>>

\* version=VersionHelper.get_version(), evaluated before setuptools.setup is entered
ResolveVersion ==
    /\ pc = "version"
    /\ LET r == get_version(files)
       IN  /\ files' = r.after
           /\ hist' = Append(hist, r)
           /\ IF r.err = "none"
              THEN pc' = "setup" /\ error' = error
              ELSE pc' = "failed" /\ error' = [type |-> r.err, msg |-> ""]
    /\ UNCHANGED <<git, cwdIsHere, blasInfo, envArgs, blas_lib, blas_dir,
                   manual_compile_args, ext_module, pkg>>

\* setuptools.setup(name="libpecos", version=..., ext_modules=[ext_module], ...)
Setup ==
    /\ pc = "setup"
    /\ pkg' = <<[name |-> "libpecos",
                 version |-> hist[Len(hist)].ret,
                 ext_modules |-> ext_module]>>
    /\ pc' = "done"
    /\ UNCHANGED <<git, cwdIsHere, files, blasInfo, envArgs, error, blas_lib, blas_dir,
                   manual_compile_args, ext_module, hist>>

\* A caller of VersionHelper.get_version outside the script's one run.
CallGetVersion ==
    /\ pc = "lib"
    /\ Len(hist) < MaxCalls
    /\ LET r == get_version(files)
       IN  /\ files' = r.after
           /\ hist' = Append(hist, r)
    /\ UNCHANGED <<git, cwdIsHere, blasInfo, envArgs, pc, error, blas_lib, blas_dir,
                   manual_compile_args, ext_module, pkg>>

\* ---------------------------------------------------------------- inputs
NoGit == [isdir |-> FALSE, returncode |-> 0, stdout |-> <<>>]
GitFails == [isdir |-> TRUE, returncode |-> 128, stdout |-> <<>>]
\* git describe prints the tag and a newline.
GitTag(t) == [isdir |-> TRUE, returncode |-> 0, stdout |-> t \o <<"\n">>]

GitStates == {NoGit, GitFails} \cup {GitTag(t) : t \in SeqsUpTo(TagChars, MaxTagLen)}

\* A version file left by an earlier build, one written by hand with single
\* quotes, and one with no version line.
StaleFile == File(VERSION_PY(<<"x">>))
HandFile == File(<<"__version__", " ", "=", " ", "'", "x", "'", "\n">>)
BareFile == File(<<"# no version here", "\n">>)

\* Run in the directory of setup.py there is one version file; run from
\* another directory there are two.
FileStates ==
    {[same |-> TRUE, files |-> [cwd |-> f, here |-> NoFile]] :
        f \in {NoFile, StaleFile, HandFile}}
    \cup
    {[same |-> FALSE, files |-> [cwd |-> f, here |-> g]] :
        f \in {NoFile, StaleFile}, g \in {NoFile, HandFile, BareFile}}

\* The environments of the version step that the runs of the whole script start in.
VersionSamples ==
    {[git |-> NoGit, same |-> TRUE, files |-> [cwd |-> NoFile, here |-> NoFile]],
     [git |-> GitTag(<<"v", "1", ".", "1", ".", "1">>), same |-> TRUE,
      files |-> [cwd |-> StaleFile, here |-> NoFile]],
     [git |-> GitTag(<<"x">>), same |-> TRUE, files |-> [cwd |-> StaleFile, here |-> NoFile]],
     [git |-> GitFails, same |-> FALSE, files |-> [cwd |-> NoFile, here |-> NoFile]],
     [git |-> GitTag(<<"v", "1", ".", "1", ".", "1">>), same |-> FALSE,
      files |-> [cwd |-> NoFile, here |-> HandFile]]}

BlasInfos ==
    {NoInfo} \cup
    {[libraries |-> l, library_dirs |-> d, found |-> TRUE] :
        l \in SeqsUpTo(LibNames, MaxLibs), d \in SeqsUpTo(DirNames, MaxDirs)}

EnvStates ==
    {[set |-> FALSE, value |-> <<>>]} \cup
    {[set |-> TRUE, value |-> v] : v \in SeqsUpTo(EnvChars, MaxEnvLen)}

NoError == [type |-> "none", msg |-> ""]

InitCommon ==
    /\ error = NoError
    /\ blas_lib = <<>>
    /\ blas_dir = <<>>
    /\ manual_compile_args = <<>>
    /\ ext_module = <<>>
    /\ pkg = <<>>
    /\ hist = <<>>

\* One run of setup.py.
Init ==
    /\ \E e \in VersionSamples : git = e.git /\ cwdIsHere = e.same /\ files = e.files
    /\ blasInfo \in BlasInfos
    /\ envArgs \in EnvStates
    /\ pc = "locate"
    /\ InitCommon

Next == LocateBlas \/ ManualCompileArgs \/ BuildExtension \/ ResolveVersion \/ Setup

Spec == Init /\ [][Next]_vars

\* VersionHelper.get_version called up to MaxCalls times in one environment.
InitVersion ==
    /\ git \in GitStates
    /\ \E e \in FileStates : cwdIsHere = e.same /\ files = e.files
    /\ blasInfo = NoInfo
    /\ envArgs = [set |-> FALSE, value |-> <<>>]
    /\ pc = "lib"
    /\ InitCommon

NextVersion == CallGetVersion

SpecVersion == InitVersion /\ [][NextVersion]_vars

\* The same, run in the directory of setup.py, as pip and build run it.
InitInTree == InitVersion /\ cwdIsHere

SpecInTree == InitInTree /\ [][NextVersion]_vars

\* ---------------------------------------------------------------- claims
\* <digits>.<digits>.<digits> and nothing else
IsMajorMinorPatch(s) ==
    \E i, j \in 1..Len(s) :
        /\ 1 < i /\ i + 1 < j /\ j < Len(s)
        /\ s[i] = "." /\ s[j] = "."
        /\ \A k \in (1..Len(s)) \ {i, j} : s[k] \in Digits

\* v<major>.<minor>.<patch> and nothing else
IsVersionTag(s) == s # <<>> /\ Head(s) = "v" /\ IsMajorMinorPatch(Tail(s))

\* The text has the line __version__ = "<v>".
HasVersionLine(text, v) ==
    \E i \in 1..Len(SplitLines(text)) :
        SplitLines(text)[i] = <<"__version__", " ", "=", " ", "\"">> \o v \o <<"\"">>

GitSucceeded == git.isdir /\ git.returncode = 0
TagText == Strip(git.stdout)

\* C1: for every tag text of a successful git query that the tag check
\* accepts, get_version returns the tag without its leading v, stripped; the
\* returned string is <major>.<minor>.<patch>; and the version file holds the
\* line __version__ = "<that string>".
C1_AcceptedTagGivesVersion ==
    \A i \in DOMAIN hist :
        (GitSucceeded /\ ReMatchTag(git.stdout)) =>
            /\ hist[i].err = "none"
            /\ hist[i].ret = Tail(TagText)
            /\ IsMajorMinorPatch(hist[i].ret)
            /\ hist[i].after[WritePath].exists
            /\ HasVersionLine(hist[i].after[WritePath].data, hist[i].ret)

\* C2: for every tag text of a successful git query that is not exactly
\* v<major>.<minor>.<patch>, get_version fails with an AssertionError and
\* leaves the version file as it was before the call.
C2_MalformedTagRejected ==
    \A i \in DOMAIN hist :
        (GitSucceeded /\ ~IsVersionTag(TagText)) =>
            /\ hist[i].err = "AssertionError"
            /\ hist[i].after = hist[i].before

\* C3: with no .git directory, or with a git query that exits nonzero,
\* get_version does not raise: it warns, writes the version file with the
\* dummy value and returns "0.0.0".
C3_NoVersionInfoGivesDummy ==
    \A i \in DOMAIN hist :
        (~git.isdir \/ git.returncode # 0) =>
            /\ hist[i].err = "none"
            /\ hist[i].warned
            /\ hist[i].after[WritePath] = File(VERSION_PY(DummyVer))
            /\ hist[i].ret = DummyVer

BlasMessages ==
    {"No BLAS/LAPACK library is found, need to install BLAS.",
     "No BLAS/LAPACK library directory is found, need to install BLAS."}

\* The query result is falsy, or names no library, or names no directory.
BlasMissing ==
    \/ ~blasInfo.found
    \/ blasInfo.libraries = <<>>
    \/ blasInfo.library_dirs = <<>>

\* get_blas_lib_dir has been called and has raised.
LocatorFailed == pc = "failed" /\ error.msg \in BlasMessages
\* get_blas_lib_dir has been called and has returned.
LocatorReturned == pc \notin {"locate", "lib"} /\ ~LocatorFailed

\* C4: get_blas_lib_dir fails with an error that names the missing
\* BLAS/LAPACK requirement, and returns nothing, when the query result is
\* falsy, or its library list is empty, or its directory list is empty; it
\* never returns a pair with an empty component.
C4_MissingBlasIsFatal ==
    (pc # "locate" /\ pc # "lib") =>
        /\ BlasMissing =>
              /\ LocatorFailed
              /\ error.type = "AssertionError"
              /\ blas_lib = <<>> /\ blas_dir = <<>>
        /\ LocatorReturned => (blas_lib # <<>> /\ blas_dir # <<>>)

C4_Witness ==
    /\ LocatorFailed
    /\ blasInfo.found
    /\ blasInfo.libraries # <<>>
    /\ blasInfo.library_dirs = <<>>

\* C5: for every query result with both lists non-empty, get_blas_lib_dir
\* returns the pair (libraries, library_dirs), same elements in the same
\* order, and changes nothing else.
C5_BlasPairUnchanged ==
    [][(pc = "locate" /\ ~BlasMissing) =>
          /\ pc' = "args"
          /\ blas_lib' = blasInfo.libraries
          /\ blas_dir' = blasInfo.library_dirs
          /\ UNCHANGED <<git, cwdIsHere, files, blasInfo, envArgs, error,
                         manual_compile_args, ext_module, pkg, hist>>]_vars

C5_Witness ==
    /\ pc = "args"
    /\ Len(blas_lib) = 2 /\ blas_lib[1] # blas_lib[2]
    /\ Len(blas_dir) = 2 /\ blas_dir[1] # blas_dir[2]

FixedCompileArgs == << <<"-fopenmp">>, <<"-O3">>, <<"-std=c++14">> >>

CommaCount(s) == Cardinality({i \in 1..Len(s) : s[i] = ","})

\* The parts written one after another with a comma between neighbours.
RECURSIVE CommaJoined(_)
CommaJoined(parts) ==
    IF parts = <<>> THEN <<>>
    ELSE IF Len(parts) = 1 THEN parts[1]
    ELSE CommaJoined(SubSeq(parts, 1, Len(parts) - 1)) \o <<",">> \o parts[Len(parts)]

\* parts is s split on commas: the pieces between the commas, in order.
IsCommaSplit(parts, s) ==
    /\ Len(parts) = CommaCount(s) + 1
    /\ \A k \in 1..Len(parts) : CommaCount(parts[k]) = 0
    /\ CommaJoined(parts) = s

\* The compile flags are the three fixed flags and then extra.
CompileArgsAre(extra) ==
    ext_module[1].extra_compile_args = FixedCompileArgs \o extra

\* C6 as stated: the compile flags are the three fixed flags followed by
\* nothing when PECOS_MANUAL_COMPILE_ARGS is absent and, when it is present
\* with any value, by its value split on commas.
C6_SplitForAnyValue ==
    ext_module # <<>> =>
        LET extra == DropFirst(ext_module[1].extra_compile_args, 3)
        IN  /\ CompileArgsAre(extra)
            /\ IF ~envArgs.set THEN extra = <<>>
               ELSE IsCommaSplit(extra, envArgs.value)

\* C6 amended: the compile flags are the three fixed flags followed by
\* nothing when PECOS_MANUAL_COMPILE_ARGS is absent or set to the empty
\* string and, when it is set to a non-empty value, by its value split on
\* commas, in order.
C6_SplitForNonEmptyValue ==
    ext_module # <<>> =>
        LET extra == DropFirst(ext_module[1].extra_compile_args, 3)
        IN  /\ CompileArgsAre(extra)
            /\ IF ~envArgs.set \/ envArgs.value = <<>> THEN extra = <<>>
               ELSE IsCommaSplit(extra, envArgs.value)

C6_Witness ==
    /\ ext_module # <<>>
    /\ envArgs.set
    /\ envArgs.value = <<"a", ",", "b">>
    /\ ext_module[1].extra_compile_args = FixedCompileArgs \o << <<"a">>, <<"b">> >>

\* C7: for every non-empty sequence of located directories the link flags
\* are the no-as-needed flag and one run-path flag whose path is the
\* directories in their order with ":" between them; the descriptor's
\* library directories are the located directories and its libraries are
\* gomp, gcc and then the located library names.
C7_LinkArgsEmbedEveryDir ==
    ext_module # <<>> =>
        LET e == ext_module[1]
            dirs == blasInfo.library_dirs
            n == Len(dirs)
            rpath == e.extra_link_args[2]
        IN  /\ n >= 1
            /\ Len(e.extra_link_args) = 2
            /\ e.extra_link_args[1] = <<"-Wl,--no-as-needed">>
            /\ Len(rpath) = 2 * n
            /\ rpath[1] = "-Wl,-rpath,"
            /\ \A k \in 1..n : rpath[2 * k] = dirs[k][1]
            /\ \A k \in 1..(n - 1) : rpath[2 * k + 1] = ":"
            /\ e.library_dirs = dirs
            /\ Len(e.libraries) = 2 + Len(blasInfo.libraries)
            /\ e.libraries[1] = "gomp" /\ e.libraries[2] = "gcc"
            /\ \A k \in 1..Len(blasInfo.libraries) : e.libraries[2 + k] = blasInfo.libraries[k]

C7_Witness ==
    /\ ext_module # <<>>
    /\ blasInfo.library_dirs = << <<"/opt/lib">>, <<"/usr/lib">> >>
    /\ ext_module[1].extra_link_args[2] = <<"-Wl,-rpath,", "/opt/lib", ":", "/usr/lib">>

\* C8: get_version called twice with the same .git presence, exit status
\* and output, from any initial version file, returns the same string both
\* times and leaves the same version file after each call; the second call
\* does not fail when the first succeeded.
C8_GetVersionIdempotent ==
    \A i, j \in DOMAIN hist :
        /\ hist[i].err = hist[j].err
        /\ hist[i].ret = hist[j].ret
        /\ hist[i].after = hist[j].after

C8_Witness ==
    /\ Len(hist) = 2
    /\ GitSucceeded
    /\ hist[1].err = "none"
    /\ hist[1].before[WritePath] = StaleFile
    /\ hist[1].after # hist[1].before
    /\ hist[2].ret = hist[1].ret

\* C9: whenever get_version returns, the string returned is the version
\* this call wrote: the file read back is the file just written, and
\* parsing its __version__ line gives back the string put into the template.
C9_ReturnsWhatItWrote ==
    \A i \in DOMAIN hist :
        hist[i].err = "none" =>
            /\ hist[i].after[ReadPath] = File(VERSION_PY(hist[i].ver))
            /\ hist[i].ret = hist[i].ver

Rank(p) ==
    CASE p = "locate" -> 0
      [] p = "args" -> 1
      [] p = "ext" -> 2
      [] p = "version" -> 3
      [] p = "setup" -> 4
      [] p = "done" -> 5
      [] OTHER -> 6

C10_Order ==
    /\ ext_module # <<>> => (~BlasMissing /\ blas_lib # <<>> /\ blas_dir # <<>>)
    /\ pkg # <<>> => (ext_module # <<>> /\ Len(hist) = 1 /\ hist[1].err = "none")
    /\ Len(hist) <= 1
    /\ pc = "failed" => pkg = <<>>
    /\ LocatorFailed => (hist = <<>> /\ ext_module = <<>>)

C10_Step ==
    /\ pc = "failed" => UNCHANGED vars
    /\ pc' = "failed" \/ Rank(pc') = Rank(pc) + 1
    /\ pc \in {"locate", "args", "ext"} => files' = files

\* C10: the build is a linear fail-fast pipeline: the descriptor is built
\* only after the locator has succeeded, the package only after the
\* descriptor exists and get_version has returned; after a step fails no
\* step runs and none is retried; when the locator fails the version file
\* is not written.
C10_LinearFailFast == []C10_Order /\ [][C10_Step]_vars

C10_Witness ==
    /\ LocatorFailed
    /\ hist = <<>>
    /\ files.cwd = StaleFile

====
